---- MODULE Spec2Model ----
(***************************************************************************)
(* Model of merovingian/utils.c: the typed configuration key/value list    *)
(* (readConfFile, freeConfFile, setConfVal), the duration formatter        *)
(* (secondsToString) and the middle-ellipsis abbreviator                   *)
(* (abbreviateString).  C strings are TLA+ strings (without the            *)
(* terminating NUL); a char* that may be NULL is <<>> (NULL) or <<s>>.     *)
(* Heap pointers are indices into heap.mem, 0 is the NULL pointer.         *)
(***************************************************************************)
EXTENDS Integers, Sequences, FiniteSets, TLC

VARIABLES list, heap, err, call, log, sec, abbr

vars == <<list, heap, err, call, log, sec, abbr>>

(* ------------------------------------------------------------------ *)
(* bounds                                                               *)
(* ------------------------------------------------------------------ *)
MaxLines == 2

MaxT == 130

MaxUnits == 5

MaxWidth == 10

MaxIn == 12

(* ------------------------------------------------------------------ *)
(* C string helpers                                                     *)
(* ------------------------------------------------------------------ *)
NULL == <<>>

Some(s) == <<s>>

Char(s, i) == SubSeq(s, i, i)

Min(a, b) == IF a < b THEN a ELSE b

Upper == "ABCDEFGHIJKLMNOPQRSTUVWXYZ"

Lower == "abcdefghijklmnopqrstuvwxyz"

tolower(c) ==
    IF \E k \in 1..26 : Char(Upper, k) = c
    THEN Char(Lower, CHOOSE k \in 1..26 : Char(Upper, k) = c)
    ELSE c

\* 0 when equal, 1 otherwise (the sign of a difference is never used)
strcmp(a, b) == IF a = b THEN 0 ELSE 1

strcasecmp(a, b) ==
    IF Len(a) = Len(b) /\ \A k \in 1..Len(a) : tolower(Char(a, k)) = tolower(Char(b, k))
    THEN 0 ELSE 1

strncmp(a, b, n) ==
    IF SubSeq(a, 1, Min(n, Len(a))) = SubSeq(b, 1, Min(n, Len(b))) THEN 0 ELSE 1

\* snprintf(buf, size, ...): at most size - 1 bytes of the formatted text
snprintf(size, text) ==
    IF Len(text) >= size THEN SubSeq(text, 1, size - 1) ELSE text

(* ------------------------------------------------------------------ *)
(* allocator boundary: heap = [mem: blocks, badfree: a free of a block  *)
(* that was not live has happened]                                      *)
(* ------------------------------------------------------------------ *)
EmptyHeap == [mem |-> <<>>, badfree |-> FALSE]

Live(h) == {a \in 1..Len(h.mem) : h.mem[a].live}

GDKstrdup(h, s) ==
    LET free == {a \in 1..Len(h.mem) : ~h.mem[a].live}
        blk  == [live |-> TRUE, str |-> s]
    IN  IF free = {}
        THEN [heap |-> [h EXCEPT !.mem = Append(h.mem, blk)], ptr |-> Len(h.mem) + 1]
        ELSE LET a == CHOOSE x \in free : \A y \in free : x <= y
             IN  [heap |-> [h EXCEPT !.mem[a] = blk], ptr |-> a]

GDKfree(h, p) ==
    IF p \in Live(h)
    THEN [h EXCEPT !.mem[p] = [live |-> FALSE, str |-> ""]]
    ELSE [h EXCEPT !.badfree = TRUE]

(* ------------------------------------------------------------------ *)
(* confkeyval                                                           *)
(* ------------------------------------------------------------------ *)
Types == {"INVALID", "INT", "BOOL", "STR", "MURI", "OTHER"}

ListA == << [key |-> "exit",        type |-> "BOOL", val |-> 0],
            [key |-> "exittimeout", type |-> "INT",  val |-> 0] >>

ListB == << [key |-> "logfile", type |-> "STR",  val |-> 0],
            [key |-> "uri",     type |-> "MURI", val |-> 0] >>

ListC == << [key |-> "unset", type |-> "INVALID", val |-> 0],
            [key |-> "x",     type |-> "OTHER",   val |-> 0] >>

Lists == {ListA, ListB, ListC}

\* the string an entry holds: NULL or Some(string)
Value(l, h, i) == IF l[i].val = 0 THEN NULL ELSE Some(h.mem[l[i].val].str)

Values(l, h) == [i \in 1..Len(l) |-> Value(l, h, i)]

(* ------------------------------------------------------------------ *)
(* setConfVal                                                           *)
(* ------------------------------------------------------------------ *)
IsDigit(c) == c \in {"0", "1", "2", "3", "4", "5", "6", "7", "8", "9"}

\* while (*p >= '0' && *p <= '9') p++;  returns the position p stops at
RECURSIVE ScanDigits(_, _)
ScanDigits(val, p) ==
    IF p <= Len(val) /\ IsDigit(Char(val, p)) THEN ScanDigits(val, p + 1) ELSE p

\* each check returns [ok, val (possibly coerced), msg]
CheckINVALID(key, val) ==
    [ok |-> FALSE, val |-> val,
     msg |-> snprintf(256, "key '" \o key \o "' is unitialised (invalid value), internal error")]

CheckINT(key, val) ==
    IF ScanDigits(val, 1) # Len(val) + 1
    THEN [ok |-> FALSE, val |-> val,
          msg |-> snprintf(256, "key '" \o key \o "' requires an integer-type value, got: " \o val)]
    ELSE [ok |-> TRUE, val |-> val, msg |-> ""]

\* CheckBOOL with case-sensitive comparisons
CheckBOOL_cs(key, val) ==
    IF strcmp(val, "true") = 0 \/ strcmp(val, "yes") = 0 \/ strcmp(val, "1") = 0
    THEN [ok |-> TRUE, val |-> "yes", msg |-> ""]
    ELSE IF strcmp(val, "false") = 0 \/ strcmp(val, "no") = 0 \/ strcmp(val, "0") = 0
    THEN [ok |-> TRUE, val |-> "no", msg |-> ""]
    ELSE [ok |-> FALSE, val |-> val,
          msg |-> snprintf(256, "key '" \o key \o "' requires a boolean-type value, got: " \o val)]

CheckBOOL(key, val) ==
    IF strcasecmp(val, "true") = 0 \/ strcasecmp(val, "yes") = 0 \/ strcmp(val, "1") = 0
    THEN [ok |-> TRUE, val |-> "yes", msg |-> ""]
    ELSE IF strcasecmp(val, "false") = 0 \/ strcasecmp(val, "no") = 0 \/ strcmp(val, "0") = 0
    THEN [ok |-> TRUE, val |-> "no", msg |-> ""]
    ELSE [ok |-> FALSE, val |-> val,
          msg |-> snprintf(256, "key '" \o key \o "' requires a boolean-type value, got: " \o val)]

MuriPrefix == "mapi:monetdb://"

\* CheckMURI with the comparison inverted
CheckMURI_inv(key, val) ==
    IF strncmp(val, MuriPrefix, Len(MuriPrefix)) = 0
    THEN [ok |-> FALSE, val |-> val,
          msg |-> snprintf(256, "key '" \o key \o "' requires a mapi:monetdb:// URI value, got: " \o val)]
    ELSE [ok |-> TRUE, val |-> val, msg |-> ""]

CheckMURI(key, val) ==
    IF strncmp(val, MuriPrefix, Len(MuriPrefix)) # 0
    THEN [ok |-> FALSE, val |-> val,
          msg |-> snprintf(256, "key '" \o key \o "' requires a mapi:monetdb:// URI value, got: " \o val)]
    ELSE [ok |-> TRUE, val |-> val, msg |-> ""]

CheckInput(type, key, val) ==
    CASE type = "INVALID" -> CheckINVALID(key, val)
      [] type = "INT"     -> CheckINT(key, val)
      [] type = "BOOL"    -> CheckBOOL(key, val)
      [] type = "MURI"    -> CheckMURI(key, val)
      [] OTHER            -> [ok |-> TRUE, val |-> val, msg |-> ""]

\* if (val == NULL) { if (ckv->val != NULL) { GDKfree; ckv->val = NULL; } return NULL; }
UnsetVal(l, h, i) ==
    IF l[i].val # 0
    THEN [list |-> [l EXCEPT ![i].val = 0], heap |-> GDKfree(h, l[i].val), ret |-> 0]
    ELSE [list |-> l, heap |-> h, ret |-> 0]

\* StoreVal without the release of the previous value
StoreVal_leak(l, h, i, s) ==
    LET d == GDKstrdup(h, s)
    IN  [list |-> [l EXCEPT ![i].val = d.ptr], heap |-> d.heap, ret |-> 0]

\* if (ckv->val != NULL) GDKfree(ckv->val); ckv->val = GDKstrdup(val); return NULL;
StoreVal(l, h, i, s) ==
    LET h1 == IF l[i].val # 0 THEN GDKfree(h, l[i].val) ELSE h
        d  == GDKstrdup(h1, s)
    IN  [list |-> [l EXCEPT ![i].val = d.ptr], heap |-> d.heap, ret |-> 0]

\* setConfVal releasing the previous value before the input is checked
setConfVal_clobber(l, h, i, v) ==
    IF v = NULL THEN UnsetVal(l, h, i)
    ELSE LET c == CheckInput(l[i].type, l[i].key, v[1])
             u == UnsetVal(l, h, i)
         IN  IF ~c.ok
             THEN LET d == GDKstrdup(u.heap, c.msg)
                  IN  [list |-> u.list, heap |-> d.heap, ret |-> d.ptr]
             ELSE StoreVal(l, h, i, c.val)

\* returns [list, heap, ret]; ret is the pointer to the diagnostic, 0 for NULL
setConfVal(l, h, i, v) ==
    IF v = NULL THEN UnsetVal(l, h, i)
    ELSE LET c == CheckInput(l[i].type, l[i].key, v[1])
         IN  IF ~c.ok
             THEN LET d == GDKstrdup(h, c.msg)
                  IN  [list |-> l, heap |-> d.heap, ret |-> d.ptr]
             ELSE StoreVal(l, h, i, c.val)

(* ------------------------------------------------------------------ *)
(* readConfFile                                                         *)
(* ------------------------------------------------------------------ *)
BufSize == 1024

\* fgets(buf, n, cnf): at most n - 1 bytes, stopping after a newline
RECURSIVE fgetsLen(_, _, _)
fgetsLen(stream, n, k) ==
    IF k >= n - 1 \/ k >= Len(stream) THEN k
    ELSE IF Char(stream, k + 1) = "\n" THEN k + 1
    ELSE fgetsLen(stream, n, k + 1)

fgets(stream, n) ==
    LET k == fgetsLen(stream, n, 0)
    IN  [buf |-> SubSeq(stream, 1, k), rest |-> SubSeq(stream, k + 1, Len(stream))]

\* buf[strlen(buf) - 1] = '\0';
ChopLast(buf) == SubSeq(buf, 1, Len(buf) - 1)

\* KeyMatches without the test for '=' after the key
KeyMatches_noeq(buf, key) ==
    /\ buf # ""
    /\ strncmp(buf, key, Len(key)) = 0

\* *buf && strncmp(buf, t->key, len) == 0 && buf[len] == '='
KeyMatches(buf, key) ==
    /\ buf # ""
    /\ strncmp(buf, key, Len(key)) = 0
    /\ Len(buf) > Len(key)
    /\ Char(buf, Len(key) + 1) = "="

\* for (t = list; t->key != NULL; t++): st = [list, heap, calls]
RECURSIVE ForEntries(_, _, _)
ForEntries(st, buf, t) ==
    IF t > Len(st.list) THEN st
    ELSE IF KeyMatches(buf, st.list[t].key)
    THEN LET arg == SubSeq(buf, Len(st.list[t].key) + 2, Len(buf))
             r   == setConfVal(st.list, st.heap, t, Some(arg))
             h2  == IF r.ret # 0 THEN GDKfree(r.heap, r.ret) ELSE r.heap
         IN  ForEntries([list |-> r.list, heap |-> h2,
                         calls |-> Append(st.calls, [idx |-> t, arg |-> arg, failed |-> r.ret # 0])],
                        buf, t + 1)
    ELSE ForEntries(st, buf, t + 1)

\* while (fgets(buf, 1024, cnf) != NULL): st = [list, heap, log]
RECURSIVE readConfFile(_, _)
readConfFile(st, stream) ==
    IF stream = "" THEN st
    ELSE LET f   == fgets(stream, BufSize)
             buf == ChopLast(f.buf)
             r   == ForEntries([list |-> st.list, heap |-> st.heap, calls |-> <<>>], buf, 1)
         IN  readConfFile([list |-> r.list, heap |-> r.heap,
                           log |-> Append(st.log,
                                     [raw |-> f.buf, buf |-> buf, calls |-> r.calls,
                                      before |-> Values(st.list, st.heap),
                                      after  |-> Values(r.list, r.heap)])],
                          f.rest)

(* ------------------------------------------------------------------ *)
(* freeConfFile                                                         *)
(* ------------------------------------------------------------------ *)
RECURSIVE freeConfFile(_, _)
freeConfFile(st, t) ==
    IF t > Len(st.list) THEN st
    ELSE IF st.list[t].val # 0
    THEN freeConfFile([list |-> [st.list EXCEPT ![t].val = 0],
                       heap |-> GDKfree(st.heap, st.list[t].val)], t + 1)
    ELSE freeConfFile(st, t + 1)

(* ------------------------------------------------------------------ *)
(* inputs of the host program                                           *)
(* ------------------------------------------------------------------ *)
InputStrings ==
    {"", "0", "1", "50000", "80a", "true", "TRUE", "yes", "YES", "True",
     "false", "FALSE", "no", "NO", "maybe", "mapi:monetdb://h", "mapi:monet"}

Inputs == {NULL} \cup {Some(s) : s \in InputStrings}

RECURSIVE Join(_)
Join(ls) == IF ls = <<>> THEN "" ELSE Head(ls) \o "\n" \o Join(Tail(ls))

\* streams of up to MaxLines lines; the last line may lack its newline
StreamsOf(lines) ==
    {""} \cup
    UNION {{Join(ls), SubSeq(Join(ls), 1, Len(Join(ls)) - 1)} :
             ls \in UNION {[1..n -> lines] : n \in 1..MaxLines}}

ConfLines == {"exittimeout=", "exit=TRUE", "uri=mapi:monetdb://h", "unset=1"}

ConfStreams == StreamsOf(ConfLines)

FileLines == {"exit=maybe", "exittimeout=7", "xy=1"}

Streams == StreamsOf(FileLines)

(* ------------------------------------------------------------------ *)
(* the host program's calls                                             *)
(* ------------------------------------------------------------------ *)
InitConf ==
    /\ list \in Lists
    /\ heap = EmptyHeap
    /\ err = 0
    /\ call = [op |-> "init"]
    /\ log = <<>>
    /\ sec = [op |-> "init"]
    /\ abbr = [op |-> "init"]

SetConfVal ==
    /\ err = 0
    /\ \E i \in 1..Len(list), v \in Inputs :
         LET r == setConfVal(list, heap, i, v)
         IN  /\ list' = r.list
             /\ heap' = r.heap
             /\ err' = r.ret
             /\ call' = [op |-> "set", idx |-> i, val |-> v]
             /\ log' = <<>>
    /\ UNCHANGED <<sec, abbr>>

ReadConfFile(streams, traced) ==
    /\ err = 0
    /\ \E s \in streams :
         LET r == readConfFile([list |-> list, heap |-> heap, log |-> <<>>], s)
         IN  /\ list' = r.list
             /\ heap' = r.heap
             /\ log' = IF traced THEN r.log ELSE <<>>
             /\ call' = [op |-> "read"]
             /\ err' = 0
    /\ UNCHANGED <<sec, abbr>>

ReadConf == ReadConfFile(ConfStreams, FALSE)

ReadTraced == ReadConfFile(Streams, TRUE)

FreeConfFile ==
    /\ err = 0
    /\ LET r == freeConfFile([list |-> list, heap |-> heap], 1)
       IN  /\ list' = r.list
           /\ heap' = r.heap
    /\ call' = [op |-> "free"]
    /\ log' = <<>>
    /\ err' = 0
    /\ UNCHANGED <<sec, abbr>>

\* the caller owns the diagnostic setConfVal returned and releases it
FreeErr ==
    /\ err # 0
    /\ heap' = GDKfree(heap, err)
    /\ err' = 0
    /\ call' = [op |-> "freeerr"]
    /\ UNCHANGED <<list, log, sec, abbr>>

NextConf == SetConfVal \/ ReadConf \/ FreeConfFile \/ FreeErr

SpecConf == InitConf /\ [][NextConf]_vars

NextRead == ReadTraced \/ FreeConfFile

SpecRead == InitConf /\ [][NextRead]_vars

TypeOK ==
    /\ \A i \in 1..Len(list) : list[i].type \in Types /\ list[i].val \in 0..Len(heap.mem)
    /\ err \in 0..Len(heap.mem)

(* ------------------------------------------------------------------ *)
(* secondsToString                                                      *)
(* ------------------------------------------------------------------ *)
Digits == "0123456789"

\* sprintf("%d", (int)n); every t in Times is within the range of int, so
\* the cast (int)(t / p) keeps the value
RECURSIVE FormatNat(_)
FormatNat(n) ==
    IF n < 10 THEN Char(Digits, n + 1)
    ELSE FormatNat(n \div 10) \o Char(Digits, (n % 10) + 1)

FormatInt(n) == IF n < 0 THEN "-" \o FormatNat(0 - n) ELSE FormatNat(n)

\* SecUnit subtracting one unit instead of the whole multiple
SecUnit_sub(st, p, u) ==
    IF st.done \/ ~(st.t > p) THEN st
    ELSE LET b == st.buf \o FormatInt(st.t \div p) \o u
             t == st.t - p
             l == st.longness - 1
         IN  IF l = 0
             THEN [t |-> t, longness |-> l, buf |-> b, done |-> TRUE]
             ELSE [t |-> t, longness |-> l, buf |-> b \o " ", done |-> FALSE]

\* if (t > p) { i += sprintf(buf + i, "%d<u>", (int)(t / p)); t -= (t / p) * p;
\*              if (--longness == 0) return; buf[i++] = ' '; }
\* st = [t, longness, buf, done]
SecUnit(st, p, u) ==
    IF st.done \/ ~(st.t > p) THEN st
    ELSE LET b == st.buf \o FormatInt(st.t \div p) \o u
             t == st.t - (st.t \div p) * p
             l == st.longness - 1
         IN  IF l = 0
             THEN [t |-> t, longness |-> l, buf |-> b, done |-> TRUE]
             ELSE [t |-> t, longness |-> l, buf |-> b \o " ", done |-> FALSE]

\* SecLast without the test of longness
SecLast_nolong(st) ==
    IF st.done THEN st.buf
    ELSE IF ~(Len(st.buf) > 0 /\ st.t = 0)
    THEN st.buf \o FormatInt(st.t) \o "s"
    ELSE SubSeq(st.buf, 1, Len(st.buf) - 1)

\* if (--longness == 0 || !(i > 0 && t == 0)) sprintf(buf + i, "%ds", (int)(t));
\* else buf[--i] = '\0';
SecLast(st) ==
    IF st.done THEN st.buf
    ELSE IF st.longness - 1 = 0 \/ ~(Len(st.buf) > 0 /\ st.t = 0)
    THEN st.buf \o FormatInt(st.t) \o "s"
    ELSE SubSeq(st.buf, 1, Len(st.buf) - 1)

Week == 1 * 60 * 60 * 24 * 7

secondsToString(t, longness) ==
    LET s0 == [t |-> t, longness |-> longness, buf |-> "", done |-> FALSE]
        s1 == SecUnit(s0, Week, "w")
        s2 == SecUnit(s1, Week \div 7, "d")
        s3 == SecUnit(s2, (Week \div 7) \div 24, "h")
        s4 == SecUnit(s3, ((Week \div 7) \div 24) \div 60, "m")
    IN  SecLast(s4)

Times ==
    (0..MaxT) \cup
    {3599, 3600, 3601, 3660, 7200, 86399, 86400, 86401, 90061, 172800, 176400,
     604799, 604800, 604801, 694861, 1209600, 1296000, 2147483647}

InitSec ==
    /\ list = <<>>
    /\ heap = EmptyHeap
    /\ err = 0
    /\ call = [op |-> "init"]
    /\ log = <<>>
    /\ sec = [op |-> "init"]
    /\ abbr = [op |-> "init"]

SecondsToString ==
    /\ \E t \in Times, n \in 1..MaxUnits :
         sec' = [op |-> "secondsToString", t |-> t, longness |-> n,
                 buf |-> secondsToString(t, n)]
    /\ UNCHANGED <<list, heap, err, call, log, abbr>>

NextSec == SecondsToString

SpecSec == InitSec /\ [][NextSec]_vars

(* ------------------------------------------------------------------ *)
(* abbreviateString: ret is an array of width + 1 bytes, each byte a    *)
(* one-character string, NUL the terminator; written is the set of      *)
(* offsets the function has stored to                                   *)
(* ------------------------------------------------------------------ *)
NUL == ""

\* the bytes of the C string s, terminator included
Bytes(s) == [k \in 1..(Len(s) + 1) |-> IF k <= Len(s) THEN Char(s, k) ELSE NUL]

\* memcpy(ret + off, src, n), src a sequence of bytes
memcpy(r, off, src, n) ==
    [ret     |-> [k \in 1..Len(r.ret) |->
                    IF k > off /\ k <= off + n THEN src[k - off] ELSE r.ret[k]],
     written |-> r.written \cup {off + k : k \in 0..(n - 1)}]

\* the C string an array of bytes holds: the bytes before the first NUL
RECURSIVE CString(_, _)
CString(ret, k) ==
    IF k > Len(ret) \/ ret[k] = NUL THEN "" ELSE ret[k] \o CString(ret, k + 1)

abbreviateString(r, in, width) ==
    LET len == Len(in)
    IN  IF len > width
        THEN LET r1  == memcpy(r, 0, Bytes(in), (width \div 2) - 3)
                 r2  == memcpy(r1, (width \div 2) - 2, Bytes("..."), 3)
                 off == len - (width - ((width \div 2) - 2) - 3)
             IN  memcpy(r2, (width \div 2) + 1,
                        SubSeq(Bytes(in), off + 1, len + 1), (len - off) + 1)
        ELSE memcpy(r, 0, Bytes(in), len + 1)

\* what an uninitialised byte of the caller's array may hold
Garbage == {NUL, ".", "#"}

Alphabet == "abcdefghijklmnopqrstuvwxyz"

AbbrInputs == {SubSeq(Alphabet, 1, n) : n \in 0..MaxIn}

MinWidth == 6

InitAbbr == InitSec

AbbreviateString ==
    /\ \E in \in AbbrInputs, w \in MinWidth..MaxWidth, g \in Garbage :
         LET r == abbreviateString([ret |-> [k \in 1..(w + 1) |-> g], written |-> {}], in, w)
         IN  abbr' = [op |-> "abbreviateString", in |-> in, width |-> w,
                      ret |-> r.ret, written |-> r.written]
    /\ UNCHANGED <<list, heap, err, call, log, sec>>

NextAbbr == AbbreviateString

SpecAbbr == InitAbbr /\ [][NextAbbr]_vars

(* ================================================================== *)
(* Properties                                                           *)
(* ================================================================== *)
HasPrefix(s, p) == Len(s) >= Len(p) /\ SubSeq(s, 1, Len(p)) = p

AllDigits(s) == \A k \in 1..Len(s) : IsDigit(Char(s, k))

TypeOf(i) == list[i].type

Val(i) == Value(list, heap, i)

\* the canonical form of input v for an entry of the given type
CanonicalOK(type, v, val) ==
    IF v = NULL THEN val = NULL
    ELSE IF type = "BOOL" THEN val \in {Some("yes"), Some("no")}
    ELSE val = v

(* C1: one call setConfVal(e, v) either returns a diagnostic and leaves   *)
(* e's value as it was before the call, or returns no diagnostic and      *)
(* leaves e's value equal to the canonical form of v.                     *)
C1_SetOutcome ==
    [][call'.op = "set" =>
         LET i == call'.idx
         IN  \/ err' # 0 /\ Value(list', heap', i) = Value(list, heap, i)
             \/ err' = 0 /\ CanonicalOK(list[i].type, call'.val, Value(list', heap', i))]_vars

C1_Witness ==
    /\ call.op = "set"
    /\ err # 0
    /\ Val(call.idx) # NULL

(* C2: after any sequence of setConfVal, readConfFile and freeConfFile    *)
(* calls an INVALID entry holds no value, a BOOL entry holds no value or  *)
(* "yes" or "no", a MURI entry holds no value or a string that starts     *)
(* with "mapi:monetdb://".                                                *)
C2_TypeInvariant ==
    \A i \in 1..Len(list) :
        /\ TypeOf(i) = "INVALID" => Val(i) = NULL
        /\ TypeOf(i) = "BOOL" => Val(i) \in {NULL, Some("yes"), Some("no")}
        /\ TypeOf(i) = "MURI" => (Val(i) = NULL \/ HasPrefix(Val(i)[1], "mapi:monetdb://"))

C2_Witness ==
    /\ call.op = "set"
    /\ TypeOf(call.idx) = "MURI"
    /\ call.val = Some("mapi:monet")
    /\ err # 0
    /\ Val(call.idx) = Some("mapi:monetdb://h")

(* C3: an INT entry holds either no value or a non-empty string of ASCII  *)
(* decimal digits (the empty string is never stored).                     *)
C3_IntNonEmptyDigits ==
    \A i \in 1..Len(list) :
        TypeOf(i) = "INT" =>
            (Val(i) = NULL \/ (Val(i)[1] # "" /\ AllDigits(Val(i)[1])))

YesInputs == {"true", "TRUE", "yes", "YES", "1"}

NoInputs == {"false", "FALSE", "no", "NO", "0"}

\* every spelling of word w in upper and lower case letters
RECURSIVE Spellings(_)
Spellings(w) ==
    IF w = "" THEN {""}
    ELSE LET k == CHOOSE j \in 1..26 : Char(Lower, j) = Char(w, 1)
         IN  {c \o r : c \in {Char(Lower, k), Char(Upper, k)},
                       r \in Spellings(SubSeq(w, 2, Len(w)))}

YesSpellings == Spellings("true") \cup Spellings("yes") \cup {"1"}

NoSpellings == Spellings("false") \cup Spellings("no") \cup {"0"}

IsBoolSet == call.op = "set" /\ TypeOf(call.idx) = "BOOL" /\ call.val # NULL

(* C4 as stated: on a BOOL entry, v in {true, TRUE, yes, YES, 1} stores   *)
(* "yes", v in {false, FALSE, no, NO, 0} stores "no", both without a      *)
(* diagnostic, and any other string returns a diagnostic.                 *)
C4_Original ==
    IsBoolSet =>
        LET v == call.val[1]
        IN  /\ v \in YesInputs => (err = 0 /\ Val(call.idx) = Some("yes"))
            /\ v \in NoInputs => (err = 0 /\ Val(call.idx) = Some("no"))
            /\ v \notin (YesInputs \cup NoInputs) => err # 0

(* C4 amended: on a BOOL entry, any upper/lower case spelling of true or  *)
(* yes, or "1", stores "yes"; any spelling of false or no, or "0", stores *)
(* "no"; both without a diagnostic; every other string returns a          *)
(* diagnostic.                                                            *)
C4_BoolCoercion ==
    IsBoolSet =>
        LET v == call.val[1]
        IN  /\ v \in YesSpellings => (err = 0 /\ Val(call.idx) = Some("yes"))
            /\ v \in NoSpellings => (err = 0 /\ Val(call.idx) = Some("no"))
            /\ v \notin (YesSpellings \cup NoSpellings) => err # 0

C4_Witness ==
    /\ IsBoolSet
    /\ call.val = Some("True")
    /\ err = 0
    /\ Val(call.idx) = Some("yes")

\* the line without its one trailing newline byte, when it has one
StripNewline(raw) ==
    IF Len(raw) > 0 /\ Char(raw, Len(raw)) = "\n"
    THEN SubSeq(raw, 1, Len(raw) - 1) ELSE raw

(* C5: the only byte readConfFile removes from a line is one trailing     *)
(* newline, and the value handed to setConfVal for a line "key=rest" is   *)
(* exactly rest, with or without a terminating newline.                   *)
C5_OnlyNewlineStripped ==
    \A k \in 1..Len(log) :
        /\ log[k].buf = StripNewline(log[k].raw)
        /\ \A c \in 1..Len(log[k].calls) :
             LET key  == list[log[k].calls[c].idx].key
                 line == StripNewline(log[k].raw)
             IN  log[k].calls[c].arg = SubSeq(line, Len(key) + 2, Len(line))

\* the first entry whose key followed by '=' is a prefix of the line, 0 if none
FirstMatch(line) ==
    LET m == {i \in 1..Len(list) : HasPrefix(line, list[i].key \o "=")}
    IN  IF m = {} THEN 0 ELSE CHOOSE i \in m : \A j \in m : i <= j

(* C6: each line readConfFile processes changes at most one entry, the    *)
(* first whose key followed by '=' is a prefix of the line; no entry      *)
(* changes when no key matches or when setConfVal rejects the remainder;  *)
(* readConfFile surfaces no error.                                        *)
C6_LineFrame ==
    /\ call.op = "read" => (err = 0 /\ Live(heap) = {list[i].val : i \in 1..Len(list)} \ {0})
    /\ \A k \in 1..Len(log) :
         LET f == FirstMatch(log[k].raw)
         IN  /\ \A i \in 1..Len(list) : i # f => log[k].after[i] = log[k].before[i]
             /\ (\E c \in 1..Len(log[k].calls) : log[k].calls[c].failed)
                    => log[k].after = log[k].before

C6_Witness ==
    \E k \in 1..Len(log) :
        /\ FirstMatch(log[k].raw) = 2
        /\ HasPrefix(log[k].raw, list[1].key)
        /\ log[k].after[2] # log[k].before[2]

(* C7: no value string is released twice or while it is still an entry's  *)
(* value, every live allocation is the value of exactly one entry or the  *)
(* diagnostic the caller holds (none after readConfFile), and after       *)
(* freeConfFile every value is absent with keys and types unchanged.      *)
C7_ReleaseDiscipline ==
    /\ ~heap.badfree
    /\ \A i \in 1..Len(list) : list[i].val # 0 => list[i].val \in Live(heap)
    /\ \A a \in Live(heap) :
         \/ a = err /\ \A i \in 1..Len(list) : list[i].val # a
         \/ a # err /\ Cardinality({i \in 1..Len(list) : list[i].val = a}) = 1
    /\ err # 0 => err \in Live(heap)
    /\ call.op = "read" => err = 0
    /\ call.op = "free" => (list \in Lists /\ Live(heap) = {})

C7_Witness ==
    /\ call.op = "free"
    /\ Len(heap.mem) >= 2
    /\ Live(heap) = {}
    /\ \A i \in 1..Len(list) : Val(i) = NULL

UnitWeight(u) ==
    CASE u = "w" -> 604800
      [] u = "d" -> 86400
      [] u = "h" -> 3600
      [] u = "m" -> 60
      [] u = "s" -> 1
      [] OTHER   -> 0

\* the components "<count><unit>" of a formatted duration, in order
RECURSIVE ParseComponents(_, _, _, _)
ParseComponents(s, k, n, acc) ==
    IF k > Len(s) THEN acc
    ELSE LET c == Char(s, k)
         IN  IF IsDigit(c)
             THEN ParseComponents(s, k + 1,
                    10 * n + (CHOOSE d \in 0..9 : Char(Digits, d + 1) = c), acc)
             ELSE IF c = " " THEN ParseComponents(s, k + 1, 0, acc)
             ELSE ParseComponents(s, k + 1, 0, Append(acc, [n |-> n, u |-> c]))

Components(s) == ParseComponents(s, 1, 0, <<>>)

RECURSIVE SumComponents(_)
SumComponents(cs) ==
    IF cs = <<>> THEN 0
    ELSE Head(cs).n * UnitWeight(Head(cs).u) + SumComponents(Tail(cs))

Larger(cs) == SelectSeq(cs, LAMBDA c : c.u # "s")

HasSeconds(cs) == \E k \in 1..Len(cs) : cs[k].u = "s"

(* C8 as stated: when fewer than units week/day/hour/minute components    *)
(* were emitted, a trailing seconds component is emitted iff it is not    *)
(* the case that a component was emitted and the remaining seconds are 0. *)
C8_Original ==
    sec.op = "secondsToString" =>
        LET cs  == Components(sec.buf)
            k   == Len(Larger(cs))
            rem == sec.t - SumComponents(Larger(cs))
        IN  k < sec.longness => (HasSeconds(cs) <=> ~(k > 0 /\ rem = 0))

(* C8 amended: when fewer than units week/day/hour/minute components were *)
(* emitted, a trailing seconds component is emitted iff exactly units - 1 *)
(* components were emitted before it, or it is not the case that a        *)
(* component was emitted and the remaining seconds are 0.                 *)
C8_TrailingSeconds ==
    sec.op = "secondsToString" =>
        LET cs  == Components(sec.buf)
            k   == Len(Larger(cs))
            rem == sec.t - SumComponents(Larger(cs))
        IN  k < sec.longness =>
                (HasSeconds(cs) <=> (k = sec.longness - 1 \/ ~(k > 0 /\ rem = 0)))

C8_Witness ==
    /\ sec.op = "secondsToString"
    /\ sec.t = 120
    /\ sec.longness = 2
    /\ sec.buf = "2m 0s"

(* C10: the output of secondsToString(out, t, 5) round-trips: the sum of  *)
(* its components, each count times its unit weight, is t.                *)
C10_RoundTrip ==
    (sec.op = "secondsToString" /\ sec.longness = 5) =>
        SumComponents(Components(sec.buf)) = sec.t

C10_Witness ==
    /\ sec.op = "secondsToString"
    /\ sec.longness = 5
    /\ sec.t = 604800
    /\ sec.buf = "7d"

(* C9: for width w >= 6 the output has length min(strlen(in), w); when    *)
(* strlen(in) > w the substring "..." is at byte offset (w/2) - 3 and     *)
(* every one of the w output bytes was written from in or the marker.     *)
C9_Abbreviated ==
    abbr.op = "abbreviateString" =>
        LET out == CString(abbr.ret, 1)
            w   == abbr.width
        IN  /\ Len(out) = Min(Len(abbr.in), w)
            /\ Len(abbr.in) > w =>
                 /\ SubSeq(out, (w \div 2) - 3 + 1, (w \div 2) - 3 + 3) = "..."
                 /\ \A k \in 0..(w - 1) : k \in abbr.written

====
